---------------------------- MODULE Spec2Model ----------------------------
(***************************************************************************)
(* A model of bmaptools/BmapCreator.py: the BmapCreator class, which       *)
(* generates the block map (bmap) of a sparse image file.                  *)
(*                                                                         *)
(* The environment is one image file (its size, the block size of its file *)
(* system, which blocks FIBMAP reports as mapped, its bytes) and the       *)
(* nondeterministic outcome (success, or failure with an errno) of every   *)
(* system call the class makes.  The program is one BmapCreator instance:  *)
(* its constructor, any number of generate() calls made by the caller, and *)
(* its destructor.  Each action is one step of that code: one system call  *)
(* together with the Python statements around it.                          *)
(***************************************************************************)
EXTENDS Integers, Sequences, FiniteSets, TLC

(***************************************************************************)
(* Bounds of the model.                                                    *)
(***************************************************************************)
\* The largest image size, in bytes.
MaxImageSize == 5
\* The largest file-system block size, in bytes.
MaxBlockSize == 3
\* The number of generate() calls the caller makes on the instance.
MaxGenerate == 2
\* The read chunk of _calculate_sha1 (1024*1024 in the source), scaled down
\* so that a range takes several reads.
MaxChunk == 2

(***************************************************************************)
(* Values of the program.                                                  *)
(***************************************************************************)
\* Python's None, for the numeric attributes and for Error.errno.
None == -1
\* A C-level NULL / a present value, for the fields of itertools.groupby.
NULL == << >>
Some(x) == << x >>
\* errno values: the two permission codes __init__ tests for, and one other.
EPERM == 1
EIO == 5
EACCES == 13
Errnos == {EPERM, EIO, EACCES}
\* The values a byte of a mapped block holds in the images of the model; a
\* hole reads back as 0.
Bytes == {1}

\* No exception is propagating.
NoExc == [type |-> "none", strerror |-> "", errno |-> None]
\* class Error(Exception): a human-readable description and an errno.
Error(strerror, errno) == [type |-> "Error", strerror |-> strerror, errno |-> errno]
\* An exception of another class that the module does not catch.
Foreign(type, errno) == [type |-> type, strerror |-> "", errno |-> errno]

VARIABLES
    img_size,            \* environment: st_size of the image file
    fs_bsz,              \* environment: FIGETBSZ of its file system
    fibmap,              \* environment: block -> disk block number (0: a hole)
    img_data,            \* environment: offset -> byte
    pc,                  \* where the instance's code stands
    calls,               \* generate() calls made so far
    include_checksums,   \* the argument of the current generate() call
    f_image,             \* self._f_image: [state, pos]
    bmap_image_size, bmap_block_size, bmap_blocks_cnt,
    bmap_mapped_cnt, bmap_mapped_size, bmap_mapped_percent,
    output,              \* what self._output.info() has been given, in order
    raised,              \* the exception the last call ended with
    os_errno,            \* environment: errno of the system call that failed in it
    gb,                  \* the groupby object of _get_ranges
    rng,                 \* first, last of _get_ranges
    sha,                 \* the locals of _calculate_sha1
    queried              \* the blocks FIBMAP was asked about in this call

env == << img_size, fs_bsz, fibmap, img_data >>
meta == << bmap_image_size, bmap_block_size, bmap_blocks_cnt >>
summary == << bmap_mapped_size, bmap_mapped_percent >>
exc == << raised, os_errno >>
locals == << gb, rng, sha >>
vars == << img_size, fs_bsz, fibmap, img_data, pc, calls, include_checksums,
           f_image, bmap_image_size, bmap_block_size, bmap_blocks_cnt,
           bmap_mapped_cnt, bmap_mapped_size, bmap_mapped_percent, output,
           raised, os_errno, gb, rng, sha, queried >>

(***************************************************************************)
(* Pure parts of the code.                                                 *)
(***************************************************************************)
\* Mutant of BlocksCnt: the division without rounding up.
BlocksCnt_floor(size, bsz) == size \div bsz

\* bmap_blocks_cnt = (bmap_image_size + bmap_block_size - 1) / bmap_block_size
\* (Python 2 integer division).
BlocksCnt(size, bsz) == (size + bsz - 1) \div bsz

\* Mutant of IsMappedResult: the test inverted.
IsMappedResult_inverted(result) == result = 0

\* _is_mapped: result != 0, on the disk block number FIBMAP returned.
IsMappedResult(result) == result # 0

\* file.read(n) at position pos: the bytes up to the end of the file.
ReadEnd(pos, n) == IF pos + n > img_size THEN img_size ELSE pos + n
ReadBytes(pos, n) == [i \in 1..(ReadEnd(pos, n) - pos) |-> img_data[pos + i - 1]]

\* hashlib.sha1: the object is the bytes it was fed, the digest stands for
\* them (SHA-1 taken as collision free).
Sha1New == << >>
Sha1Update(h, chunk) == h \o chunk
Sha1Hexdigest(h) == h

\* The locals of a frame that is not running.
NoGb == [it |-> 0, tgtkey |-> NULL, currkey |-> NULL, currvalue |-> NULL]
NoRng == [first |-> None, last |-> None]
NoSha == [to_read |-> 0, read |-> 0, chunk_size |-> 0, hash_obj |-> Sha1New,
          reads |-> 0]

\* bmap_mapped_percent = bmap_mapped_cnt * 100.0 / bmap_blocks_cnt, kept as
\* the exact quotient num/den.
NoPercent == [num |-> None, den |-> None]
MappedPercent(cnt, blocks) == [num |-> cnt * 100, den |-> blocks]

\* Mutant of RangeLen: the range counted as half open.
RangeLen_halfopen(first, last) == last - first

\* last - first + 1, the blocks of a range.
RangeLen(first, last) == last - first + 1

\* The fragments given to the output.
HeaderFragment == [kind |-> "header", ImageSize |-> bmap_image_size,
                   BlockSize |-> bmap_block_size, BlocksCount |-> bmap_blocks_cnt]
\* Mutant of RangeFragment: the end written as the block after the range.
RangeFragment_exclusive(has_sha1, sha1, first, last) ==
    [kind |-> "range", has_sha1 |-> has_sha1, sha1 |-> sha1,
     first |-> first, last |-> last + 1]

\* Mutant of RangeFragment: the first block written in both places.
RangeFragment_firstonly(has_sha1, sha1, first, last) ==
    [kind |-> "range", has_sha1 |-> has_sha1, sha1 |-> sha1,
     first |-> first, last |-> first]

RangeFragment(has_sha1, sha1, first, last) ==
    [kind |-> "range", has_sha1 |-> has_sha1, sha1 |-> sha1,
     first |-> first, last |-> last]
FooterFragment(size, percent, cnt) ==
    [kind |-> "footer", mapped_size |-> size, mapped_percent |-> percent,
     MappedBlocksCount |-> cnt]

(***************************************************************************)
(* The initial state: an image file, and an instance about to be built.    *)
(***************************************************************************)
\* The number of blocks of block size bsz the file system holds a file of
\* size bytes in: the blocks the FIBMAP ioctl of _is_mapped answers for.
FileBlocks(size, bsz) ==
    CHOOSE n \in 0..size : n * bsz >= size /\ (n = 0 \/ (n - 1) * bsz < size)

Init ==
    /\ img_size \in 0..MaxImageSize
    /\ fs_bsz \in 1..MaxBlockSize
    /\ fibmap \in [0..(FileBlocks(img_size, fs_bsz) - 1) -> 0..1]
    /\ img_data \in [0..(img_size - 1) -> Bytes \cup {0}]
    /\ \A i \in 0..(img_size - 1) : (img_data[i] = 0) <=> (fibmap[i \div fs_bsz] = 0)
    /\ pc = "open"
    /\ calls = 0
    /\ include_checksums = TRUE
    /\ f_image = [state |-> "none", pos |-> 0]
    /\ bmap_image_size = None
    /\ bmap_block_size = None
    /\ bmap_blocks_cnt = None
    /\ bmap_mapped_cnt = None
    /\ bmap_mapped_size = None
    /\ bmap_mapped_percent = NoPercent
    /\ output = << >>
    /\ raised = NoExc
    /\ os_errno = None
    /\ gb = NoGb
    /\ rng = NoRng
    /\ sha = NoSha
    /\ queried = << >>

(***************************************************************************)
(* BmapCreator.__init__                                                    *)
(***************************************************************************)
\* An exception leaves __init__: the instance is never handed to the caller.
InitRaise(e, oserr) ==
    /\ raised' = e
    /\ os_errno' = oserr
    /\ pc' = "init_failed"

\* self._f_image = open(image_path, 'rb'); IOError becomes Error.
InitOpen ==
    /\ pc = "open"
    /\ \/ /\ f_image' = [state |-> "open", pos |-> 0]
          /\ pc' = "fstat"
          /\ UNCHANGED exc
       \/ \E e \in Errnos :
          /\ InitRaise(Error("cannot open image file", e), e)
          /\ UNCHANGED f_image
    /\ UNCHANGED << env, calls, include_checksums, meta, bmap_mapped_cnt,
                    summary, output, locals, queried >>

\* The exception of the zero-size branch: the expression err.errno is
\* evaluated first, and err is bound only by the except clause of open(),
\* which did not run.
ZeroSizeExc == Foreign("UnboundLocalError", None)

\* self.bmap_image_size = os.fstat(...).st_size, and the zero-size test.
\* os.fstat is not inside a try: its OSError leaves as it is.
InitFstat ==
    /\ pc = "fstat"
    /\ \/ /\ bmap_image_size' = img_size
          /\ IF img_size = 0
             THEN InitRaise(ZeroSizeExc, None)
             ELSE pc' = "figetbsz" /\ UNCHANGED exc
       \/ \E e \in Errnos :
          /\ InitRaise(Foreign("OSError", e), e)
          /\ UNCHANGED bmap_image_size
    /\ UNCHANGED << env, calls, include_checksums, f_image, bmap_block_size,
                    bmap_blocks_cnt, bmap_mapped_cnt, summary, output, locals,
                    queried >>

\* The FIGETBSZ ioctl and the block count computed from it.
InitBlockSize ==
    /\ pc = "figetbsz"
    /\ \/ /\ bmap_block_size' = fs_bsz
          /\ bmap_blocks_cnt' = BlocksCnt(bmap_image_size, fs_bsz)
          /\ pc' = "probe"
          /\ UNCHANGED exc
       \/ \E e \in Errnos :
          /\ InitRaise(Error("cannot get block size", e), e)
          /\ UNCHANGED << bmap_block_size, bmap_blocks_cnt >>
    /\ UNCHANGED << env, calls, include_checksums, f_image, bmap_image_size,
                    bmap_mapped_cnt, summary, output, locals, queried >>

\* _is_mapped: the IOError of the FIBMAP ioctl becomes Error.
IsMappedError(e) == Error("the FIBMAP ioctl failed", e)

\* Mutant of ProbeError: only EPERM taken as a permission failure.
ProbeError_eperm_only(err) ==
    IF err.errno = EPERM
    THEN Error("you do not have permissions to use the FIBMAP ioctl", err.errno)
    ELSE err

\* The except clause around the probe: a permission errno gets the message
\* about CAP_SYS_RAWIO, with the same errno; any other Error is raised again.
ProbeError(err) ==
    IF err.errno = EPERM \/ err.errno = EACCES
    THEN Error("you do not have permissions to use the FIBMAP ioctl", err.errno)
    ELSE err

\* self._is_mapped(0), whose result is dropped.
InitProbe ==
    /\ pc = "probe"
    /\ queried' = Append(queried, 0)
    /\ \/ /\ pc' = "ready"
          /\ UNCHANGED exc
       \/ \E e \in Errnos : InitRaise(ProbeError(IsMappedError(e)), e)
    /\ UNCHANGED << env, calls, include_checksums, f_image, meta,
                    bmap_mapped_cnt, summary, output, locals >>

(***************************************************************************)
(* BmapCreator.generate                                                    *)
(***************************************************************************)
\* Mutant of GenRaise: the exception is swallowed and the document closed.
GenRaise_swallowed(e, oserr) ==
    /\ raised' = e
    /\ os_errno' = oserr
    /\ pc' = "finalize"
    /\ gb' = NoGb
    /\ rng' = NoRng
    /\ sha' = NoSha

\* Mutant of GenRaise: the failed generation is started again from the sync.
GenRaise_retry(e, oserr) ==
    /\ raised' = e
    /\ os_errno' = oserr
    /\ pc' = "flush"
    /\ gb' = NoGb
    /\ rng' = NoRng
    /\ sha' = NoSha

\* An exception leaves generate(): its frames, and their locals, are gone.
GenRaise(e, oserr) ==
    /\ raised' = e
    /\ os_errno' = oserr
    /\ pc' = "failed"
    /\ gb' = NoGb
    /\ rng' = NoRng
    /\ sha' = NoSha

\* The caller calls generate(include_checksums) on a constructed instance;
\* nothing in the class refuses a call after an earlier one returned or
\* raised.  _bmap_file_start() and self._f_image.seek(0).
GenerateCall ==
    /\ pc \in {"ready", "done", "failed"}
    /\ calls < MaxGenerate
    /\ calls' = calls + 1
    /\ \E inc \in BOOLEAN : include_checksums' = inc
    /\ output' = Append(output, HeaderFragment)
    /\ f_image' = [f_image EXCEPT !.pos = 0]
    /\ raised' = NoExc
    /\ os_errno' = None
    /\ queried' = << >>
    /\ pc' = "flush"
    /\ UNCHANGED << env, meta, bmap_mapped_cnt, summary, locals >>

\* self._f_image.flush(); IOError becomes Error.
Flush ==
    /\ pc = "flush"
    /\ \/ /\ pc' = "fsync"
          /\ UNCHANGED << exc, locals >>
       \/ \E e \in Errnos : GenRaise(Error("cannot flush image file", e), e)
    /\ UNCHANGED << env, calls, include_checksums, f_image, meta,
                    bmap_mapped_cnt, summary, output, queried >>

\* Mutant of Fsync: the OSError of os.fsync is ignored.
Fsync_unchecked ==
    /\ pc = "fsync"
    /\ bmap_mapped_cnt' = 0
    /\ gb' = NoGb
    /\ pc' = "groupby_next"
    /\ \/ UNCHANGED os_errno
       \/ \E e \in Errnos : os_errno' = e
    /\ UNCHANGED << env, calls, include_checksums, f_image, meta, summary,
                    output, queried, raised, rng, sha >>

\* os.fsync(...); OSError becomes Error.  Then self.bmap_mapped_cnt = 0 and
\* the for loop creates the generator of _get_ranges and its groupby.
Fsync ==
    /\ pc = "fsync"
    /\ \/ /\ bmap_mapped_cnt' = 0
          /\ gb' = NoGb
          /\ pc' = "groupby_next"
          /\ UNCHANGED << exc, rng, sha >>
       \/ \E e \in Errnos :
          /\ GenRaise(Error("cannot synchronize image file", e), e)
          /\ UNCHANGED bmap_mapped_cnt
    /\ UNCHANGED << env, calls, include_checksums, f_image, meta, summary,
                    output, queried >>

\* groupby: the loop of groupby.next() goes on to the next element while the
\* current key is absent or equals the key of the group last handed out.
GroupBreak(tgtkey, currkey) == currkey # NULL /\ (tgtkey = NULL \/ tgtkey # currkey)

\* Mutant of XrangeDone: the sequence one block short.
XrangeDone_short(it) == it >= bmap_blocks_cnt - 1

\* xrange(self.bmap_blocks_cnt) has no element left at position it.
XrangeDone(it) == it >= bmap_blocks_cnt

\* Mutant of Fetched: the iterator of xrange is not advanced.
Fetched_requery(key) == [gb EXCEPT !.currkey = Some(key),
                                   !.currvalue = Some(gb.it)]

\* groupby after it took element gb.it of xrange(bmap_blocks_cnt) and key, the
\* result of _is_mapped, for it.
Fetched(key) == [gb EXCEPT !.it = gb.it + 1, !.currkey = Some(key),
                           !.currvalue = Some(gb.it)]

\* One round of groupby.next(), called by the for loop of _get_ranges: hand
\* out the next group, or take one more element and ask FIBMAP about it, or
\* stop at the end of xrange (which ends _get_ranges and the loop of
\* generate()).  A group with a False key is dropped by `if key`.
GroupbyNext ==
    /\ pc = "groupby_next"
    /\ \/ /\ GroupBreak(gb.tgtkey, gb.currkey)
          /\ gb' = [gb EXCEPT !.tgtkey = gb.currkey]
          /\ pc' = IF gb.currkey = Some(TRUE) THEN "group_first" ELSE "groupby_next"
          /\ UNCHANGED << exc, rng, sha, queried >>
       \/ /\ ~GroupBreak(gb.tgtkey, gb.currkey)
          /\ XrangeDone(gb.it)
          /\ pc' = "finalize"
          /\ UNCHANGED << exc, locals, queried >>
       \/ /\ ~GroupBreak(gb.tgtkey, gb.currkey)
          /\ ~XrangeDone(gb.it)
          /\ queried' = Append(queried, gb.it)
          /\ \/ /\ gb' = Fetched(IsMappedResult(fibmap[gb.it]))
                /\ UNCHANGED << pc, exc, rng, sha >>
             \/ \E e \in Errnos : GenRaise(IsMappedError(e), e)
    /\ UNCHANGED << env, calls, include_checksums, f_image, meta,
                    bmap_mapped_cnt, summary, output >>

\* first = group.next(); last = first.  The group was just handed out, so
\* its first element is the one groupby holds.
GrouperFirst ==
    /\ pc = "group_first"
    /\ gb.currvalue # NULL /\ gb.currkey = gb.tgtkey
    /\ rng' = [first |-> gb.currvalue[1], last |-> gb.currvalue[1]]
    /\ gb' = [gb EXCEPT !.currvalue = NULL, !.currkey = NULL]
    /\ pc' = "group_rest"
    /\ UNCHANGED << env, calls, include_checksums, f_image, meta,
                    bmap_mapped_cnt, summary, output, exc, sha, queried >>

\* for last in group: pass.  One group.next(): take the next element and ask
\* FIBMAP about it; the group ends at the end of xrange or at an element
\* with another key, which groupby keeps.  Then yield first, last.
GrouperRest ==
    /\ pc = "group_rest"
    /\ \/ /\ XrangeDone(gb.it)
          /\ pc' = "yielded"
          /\ UNCHANGED << exc, locals, queried >>
       \/ /\ ~XrangeDone(gb.it)
          /\ queried' = Append(queried, gb.it)
          /\ \/ /\ IsMappedResult(fibmap[gb.it]) = gb.tgtkey[1]
                /\ gb' = [gb EXCEPT !.it = gb.it + 1]
                /\ rng' = [rng EXCEPT !.last = gb.it]
                /\ UNCHANGED << pc, exc, sha >>
             \/ /\ IsMappedResult(fibmap[gb.it]) # gb.tgtkey[1]
                /\ gb' = Fetched(IsMappedResult(fibmap[gb.it]))
                /\ pc' = "yielded"
                /\ UNCHANGED << exc, rng, sha >>
             \/ \E e \in Errnos : GenRaise(IsMappedError(e), e)
    /\ UNCHANGED << env, calls, include_checksums, f_image, meta,
                    bmap_mapped_cnt, summary, output >>

\* The locals of _calculate_sha1(first, last) before its loop.  reads is a
\* history field: the number of self._f_image.read() calls the loop made.
Sha1Start(first, last) ==
    [to_read |-> (last + 1) * bmap_block_size - first * bmap_block_size,
     read |-> 0, chunk_size |-> MaxChunk, hash_obj |-> Sha1New, reads |-> 0]

\* The body of the loop of generate() up to the checksum: count the blocks
\* of the range; without checksums, write the range.
RangeFound ==
    /\ pc = "yielded"
    /\ bmap_mapped_cnt' = bmap_mapped_cnt + RangeLen(rng.first, rng.last)
    /\ IF include_checksums
       THEN /\ sha' = Sha1Start(rng.first, rng.last)
            /\ pc' = "sha1"
            /\ UNCHANGED output
       ELSE /\ output' = Append(output, RangeFragment(FALSE, << >>, rng.first, rng.last))
            /\ pc' = "groupby_next"
            /\ UNCHANGED sha
    /\ UNCHANGED << env, calls, include_checksums, f_image, meta, summary,
                    exc, gb, rng, queried >>

\* The chunk size of the next read.
ChunkSize(read, to_read, chunk_size) ==
    IF read + chunk_size > to_read THEN to_read - read ELSE chunk_size

\* Mutant of Advance: progress counted in the bytes the read returned.
Advance_received(read, chunk_size, chunk) == read + Len(chunk)

\* read += chunk_size, whatever the read returned.
Advance(read, chunk_size, chunk) == read + chunk_size

\* One round of the loop of _calculate_sha1: read a chunk at the file's
\* position and feed it to the hash.  The read is not inside a try: its
\* IOError leaves as it is.
Sha1Read ==
    /\ pc = "sha1"
    /\ sha.read < sha.to_read
    /\ LET cs == ChunkSize(sha.read, sha.to_read, sha.chunk_size) IN
       \/ /\ f_image' = [f_image EXCEPT !.pos = ReadEnd(f_image.pos, cs)]
          /\ sha' = [sha EXCEPT
                        !.chunk_size = cs,
                        !.read = Advance(sha.read, cs, ReadBytes(f_image.pos, cs)),
                        !.hash_obj = Sha1Update(sha.hash_obj, ReadBytes(f_image.pos, cs)),
                        !.reads = sha.reads + 1]
          /\ UNCHANGED << pc, exc, gb, rng >>
       \/ \E e \in Errnos :
          /\ GenRaise(Foreign("IOError", e), e)
          /\ UNCHANGED f_image
    /\ UNCHANGED << env, calls, include_checksums, meta, bmap_mapped_cnt,
                    summary, output, queried >>

\* _calculate_sha1 returns the digest and generate() writes the range.
EmitRange ==
    /\ pc = "sha1"
    /\ sha.read >= sha.to_read
    /\ output' = Append(output, RangeFragment(TRUE, Sha1Hexdigest(sha.hash_obj),
                                              rng.first, rng.last))
    /\ sha' = NoSha
    /\ pc' = "groupby_next"
    /\ UNCHANGED << env, calls, include_checksums, f_image, meta,
                    bmap_mapped_cnt, summary, exc, gb, rng, queried >>

\* After the loop: the summary and _bmap_file_end().
Finalize ==
    /\ pc = "finalize"
    /\ bmap_mapped_size' = bmap_mapped_cnt * bmap_block_size
    /\ bmap_mapped_percent' = MappedPercent(bmap_mapped_cnt, bmap_blocks_cnt)
    /\ output' = Append(output, FooterFragment(bmap_mapped_size', bmap_mapped_percent',
                                               bmap_mapped_cnt))
    /\ gb' = NoGb
    /\ rng' = NoRng
    /\ sha' = NoSha
    /\ pc' = "done"
    /\ UNCHANGED << env, calls, include_checksums, f_image, meta,
                    bmap_mapped_cnt, exc, queried >>

(***************************************************************************)
(* BmapCreator.__del__                                                     *)
(***************************************************************************)
\* The interpreter destroys the instance once nothing refers to it: after
\* __init__ raised, or when the caller drops the instance between calls.
Del ==
    /\ pc \in {"init_failed", "ready", "done", "failed"}
    /\ f_image' = IF f_image.state = "open"
                  THEN [f_image EXCEPT !.state = "closed"]
                  ELSE f_image
    /\ pc' = "deleted"
    /\ UNCHANGED << env, calls, include_checksums, meta, bmap_mapped_cnt,
                    summary, output, exc, locals, queried >>

Next ==
    \/ InitOpen
    \/ InitFstat
    \/ InitBlockSize
    \/ InitProbe
    \/ GenerateCall
    \/ Flush
    \/ Fsync
    \/ GroupbyNext
    \/ GrouperFirst
    \/ GrouperRest
    \/ RangeFound
    \/ Sha1Read
    \/ EmitRange
    \/ Finalize
    \/ Del

Spec == Init /\ [][Next]_vars

\* generate() is straight-line sequential code: once called, the interpreter
\* runs its next statement as long as there is one.
GenerateStep ==
    \/ Flush
    \/ Fsync
    \/ GroupbyNext
    \/ GrouperFirst
    \/ GrouperRest
    \/ RangeFound
    \/ Sha1Read
    \/ EmitRange
    \/ Finalize

FairSpec == Spec /\ WF_vars(GenerateStep)

(***************************************************************************)
(* What the properties below read off the output.                          *)
(***************************************************************************)
\* The document of the latest generate() call: the output from its header on.
HeaderAt == {i \in 1..Len(output) : output[i].kind = "header"}
GenStart == IF HeaderAt = {} THEN 0
            ELSE CHOOSE i \in HeaderAt : \A j \in HeaderAt : j <= i
CurDoc == IF GenStart = 0 THEN << >> ELSE SubSeq(output, GenStart, Len(output))
IsRange(f) == f.kind = "range"
CurRanges == SelectSeq(CurDoc, IsRange)
Blocks(r) == r.first..r.last
RECURSIVE SumLen(_)
SumLen(rs) == IF rs = << >> THEN 0
              ELSE (Head(rs).last - Head(rs).first + 1) + SumLen(Tail(rs))
\* The blocks of the image that FIBMAP reports as mapped.
MappedBlocks == {b \in DOMAIN fibmap : fibmap[b] # 0}
\* The bytes of the image in blocks first..last, up to the end of the image.
SpanEnd(last) == IF (last + 1) * fs_bsz > img_size THEN img_size
                 ELSE (last + 1) * fs_bsz
SpanBytes(first, last) ==
    [i \in 1..(SpanEnd(last) - first * fs_bsz) |-> img_data[first * fs_bsz + i - 1]]

(***************************************************************************)
(* Properties.                                                             *)
(***************************************************************************)
\* C1: with checksums, the digest written with every range first-last is the
\* digest of the image bytes [first*blockSize, (last+1)*blockSize), cut at
\* the end of the image.  The code does not hold this: _calculate_sha1
\* reads from wherever the file position stands, and nothing seeks to
\* first*blockSize, so a range that follows a hole is given the digest of
\* bytes that start at the end of the previous range (or at 0).
C1_DigestIsOverRangeBytes ==
    \A i \in 1..Len(output) :
        (output[i].kind = "range" /\ output[i].has_sha1)
        => output[i].sha1
           = Sha1Hexdigest(Sha1Update(Sha1New, SpanBytes(output[i].first, output[i].last)))

\* C2: when generate() has returned, the blocks covered by the ranges it
\* wrote are exactly the blocks FIBMAP reports as mapped, and no block is in
\* two ranges.
C2_RangesCoverExactlyMapped ==
    pc = "done" =>
        /\ UNION {Blocks(CurRanges[i]) : i \in 1..Len(CurRanges)} = MappedBlocks
        /\ \A i, j \in 1..Len(CurRanges) :
               i < j => Blocks(CurRanges[i]) \cap Blocks(CurRanges[j]) = {}

\* C2 witness: a finished document of two ranges for an image that starts
\* with a hole.
C2_Witness ==
    /\ pc = "done"
    /\ Len(CurRanges) = 2
    /\ fibmap[0] = 0

\* C3: at every point, every range written satisfies 0 <= first <= last <
\* blockCount, and a range written right after another starts at least two
\* blocks after the other's last block.
C3_RangesIncreasingNotAdjacent ==
    \A i \in 1..Len(output) :
        output[i].kind = "range" =>
            /\ 0 <= output[i].first
            /\ output[i].first <= output[i].last
            /\ output[i].last < bmap_blocks_cnt
            /\ (i > 1 /\ output[i - 1].kind = "range")
               => output[i].first >= output[i - 1].last + 2

\* C3 witness: two ranges written, the pass still scanning.
C3_Witness ==
    /\ pc = "groupby_next"
    /\ Len(CurRanges) = 2
    /\ ~XrangeDone(gb.it)

\* C4: when generate() has returned, the MappedBlocksCount of the footer is
\* the sum of last - first + 1 over the ranges of the same document, and the
\* mapped size is that count times the block size.
C4_FooterCountIsSumOfRanges ==
    pc = "done" =>
        LET footer == output[Len(output)] IN
        /\ footer.kind = "footer"
        /\ footer.MappedBlocksCount = SumLen(CurRanges)
        /\ bmap_mapped_cnt = SumLen(CurRanges)
        /\ footer.mapped_size = SumLen(CurRanges) * fs_bsz
        /\ bmap_mapped_size = SumLen(CurRanges) * fs_bsz

\* C4 witness: the second document of an instance, with two ranges of three
\* blocks in all.
C4_Witness ==
    /\ pc = "done"
    /\ calls = 2
    /\ Len(CurRanges) = 2
    /\ output[Len(output)].MappedBlocksCount = 3

\* C5: in every document the header comes first, every range follows the
\* header or a range, the footer follows the header or a range and is the
\* last fragment of its document (only the header of a later generate() call
\* may follow it), and the footer is written only when the pass has asked
\* about every block.
C5_HeaderRangesFooterOrder ==
    /\ output # << >> => output[1].kind = "header"
    /\ \A i \in 2..Len(output) :
           output[i].kind \in {"range", "footer"}
           => output[i - 1].kind \in {"header", "range"}
    /\ (output # << >> /\ output[Len(output)].kind = "footer")
       => /\ pc \in {"done", "deleted"}
          /\ queried = [b \in 1..bmap_blocks_cnt |-> b - 1]

\* C5 witness: a second finished document with two ranges, after a first
\* finished document.
C5_Witness ==
    /\ pc = "done"
    /\ calls = 2
    /\ Len(CurDoc) = 4
    /\ output[GenStart - 1].kind = "footer"

\* C6: a zero-size image makes construction fail with Error and the
\* zero-sized message, before any block-size query, mapping query or output.
\* The code does not hold this: the raise statement of the zero-size branch
\* evaluates err.errno, and err is unbound there, so UnboundLocalError
\* leaves __init__ instead of Error.
C6_ZeroSizeRaisesError ==
    (pc = "init_failed" /\ bmap_image_size = 0)
    => /\ raised.type = "Error"
       /\ raised.strerror = "cannot generate bmap for zero-sized image file"
       /\ output = << >>
       /\ queried = << >>
       /\ bmap_block_size = None

\* The lifecycle state of the specification that a position of the code is in:
\* Created 0, Opened 1, Validated 2, HeaderEmitted 3, Scanning 4,
\* Finalized 5, failed 6, destroyed 7.
LifecycleRank(p) ==
    CASE p = "open" -> 0
      [] p \in {"fstat", "figetbsz", "probe"} -> 1
      [] p = "ready" -> 2
      [] p \in {"flush", "fsync"} -> 3
      [] p \in {"groupby_next", "group_first", "group_rest", "yielded", "sha1",
                "finalize"} -> 4
      [] p = "done" -> 5
      [] p \in {"init_failed", "failed"} -> 6
      [] p = "deleted" -> 7

\* C7 as claimed: no step moves an instance back to an earlier lifecycle
\* state.  generate() called on an instance that finished or failed a
\* generation does.
C7_NeverBack == [][LifecycleRank(pc') >= LifecycleRank(pc)]_vars

\* C7 as amended: only a new generate() call moves an instance back; within
\* construction and within one generate() call the lifecycle only moves
\* forward and a failure is not retried.  A generate() call is accepted on
\* every constructed instance (fresh, finished or failed), restarts at
\* HeaderEmitted and writes a header, and nothing else writes one.
C7_LinearWithinCall ==
    [][/\ calls' = calls
          => /\ LifecycleRank(pc') >= LifecycleRank(pc)
             /\ Len(output') > Len(output) => output'[Len(output')].kind # "header"
       /\ calls' # calls
          => /\ pc \in {"ready", "done", "failed"}
             /\ pc' = "flush"
             /\ output' = Append(output, [kind |-> "header",
                                          ImageSize |-> img_size,
                                          BlockSize |-> fs_bsz,
                                          BlocksCount |-> bmap_blocks_cnt])]_vars

\* C7 witness: one instance has produced two complete documents.
C7_Witness ==
    /\ pc = "done"
    /\ calls = 2
    /\ Cardinality({i \in 1..Len(output) : output[i].kind = "footer"}) = 2
    /\ Cardinality(HeaderAt) = 2

\* C8: whenever construction has failed or generate() has returned or
\* failed, the image file is not open any more.  The code does not hold
\* this: only __del__ closes the file.
C8_ClosedOnEveryExit ==
    pc \in {"init_failed", "done", "failed"} => f_image.state # "open"

\* C9: construction asks FIBMAP about block 0 before anything is written;
\* when that probe fails, __init__ raises Error with the errno of the ioctl,
\* with the permissions message if the errno is EPERM or EACCES and with the
\* message of _is_mapped otherwise, and nothing has been written.
C9_ProbeErrorsDistinguished ==
    /\ pc \in {"open", "fstat", "figetbsz", "probe", "ready", "init_failed"}
       => output = << >>
    /\ pc = "ready" => queried = << 0 >>
    /\ (pc = "init_failed" /\ queried # << >>)
       => /\ queried = << 0 >>
          /\ os_errno # None
          /\ raised.type = "Error"
          /\ raised.errno = os_errno
          /\ raised.strerror =
                 IF os_errno \in {EPERM, EACCES}
                 THEN "you do not have permissions to use the FIBMAP ioctl"
                 ELSE "the FIBMAP ioctl failed"

\* C9 witness: the probe failed with EACCES.
C9_Witness ==
    /\ pc = "init_failed"
    /\ queried = << 0 >>
    /\ os_errno = EACCES
    /\ raised.strerror = "you do not have permissions to use the FIBMAP ioctl"

\* C10: every failure of construction or of generate() is an Error with a
\* message and, when a system call failed, that call's errno.  The code
\* does not hold this: os.fstat and the read of _calculate_sha1 are outside
\* any try, and the zero-size branch raises UnboundLocalError.
C10_EveryFailureIsError ==
    pc \in {"init_failed", "failed"}
    => /\ raised.type = "Error"
       /\ raised.strerror # ""
       /\ os_errno # None => raised.errno = os_errno

\* C11: a step of generate() that raises, and every later step up to the
\* next generate() call, leaves the output as it is; the document of a
\* failed generation is its header followed by the ranges written before the
\* failure, without a footer.
C11_PartialOutputKept ==
    [][(raised' # NoExc /\ calls >= 1 /\ calls' = calls)
       => /\ output' = output
          /\ CurDoc[1].kind = "header"
          /\ \A i \in 2..Len(CurDoc) : CurDoc[i].kind = "range"]_vars

\* C11 witness: a mapping query failed after a range had been written.
C11_Witness ==
    /\ pc = "failed"
    /\ raised.strerror = "the FIBMAP ioctl failed"
    /\ Len(CurDoc) >= 2
    /\ CurDoc[Len(CurDoc)].kind = "range"

\* C12: for an image whose blocks are all mapped, a finished document has
\* the single range 0..N-1, MappedBlocksCount = N and a mapped percentage
\* of 100.
C12_AllMapped ==
    (pc = "done" /\ MappedBlocks = DOMAIN fibmap)
    => /\ Len(CurRanges) = 1
       /\ CurRanges[1].first = 0
       /\ CurRanges[1].last = bmap_blocks_cnt - 1
       /\ output[Len(output)].MappedBlocksCount = bmap_blocks_cnt
       /\ bmap_mapped_cnt = bmap_blocks_cnt
       /\ bmap_mapped_percent.num = 100 * bmap_mapped_percent.den
       /\ output[Len(output)].mapped_percent = bmap_mapped_percent

\* C12 witness: a finished document for an all-mapped image of three blocks
\* or more.
C12_Witness ==
    /\ pc = "done"
    /\ MappedBlocks = DOMAIN fibmap
    /\ bmap_blocks_cnt >= 3

\* C13: for an image whose blocks are all holes, a finished document is the
\* header and the footer with no range, MappedBlocksCount = 0 and a mapped
\* percentage of 0, the divisor bmap_blocks_cnt being at least 1.
C13_AllUnmapped ==
    (pc = "done" /\ MappedBlocks = {})
    => /\ CurRanges = << >>
       /\ Len(CurDoc) = 2
       /\ CurDoc[1].kind = "header"
       /\ CurDoc[2].kind = "footer"
       /\ CurDoc[2].MappedBlocksCount = 0
       /\ bmap_mapped_cnt = 0
       /\ bmap_mapped_percent.num = 0
       /\ bmap_mapped_percent.den >= 1
       /\ CurDoc[2].mapped_percent = bmap_mapped_percent

\* C13 witness: a finished document for an all-hole image of two blocks or
\* more.
C13_Witness ==
    /\ pc = "done"
    /\ MappedBlocks = {}
    /\ bmap_blocks_cnt >= 2

\* The positions of the scanning pass of generate().
ScanPcs == {"groupby_next", "group_first", "group_rest", "yielded", "sha1",
            "finalize"}

\* C14: while generate() is at the flush or the fsync, only the header of
\* its document has been written and no block has been asked about; a
\* failure of either ends generate() with the Error of that call and its
\* errno, nothing more written and nothing asked; the scan is entered only
\* by a successful fsync, the fsync only by a successful flush, and a
\* mapping query of generate() is made only in the scan.
C14_SyncBeforeScan ==
    [][/\ pc \in {"flush", "fsync"}
          => /\ queried = << >>
             /\ Len(CurDoc) = 1
             /\ CurDoc[1].kind = "header"
       /\ (pc \in {"flush", "fsync"} /\ os_errno' # None)
          => /\ pc' = "failed"
             /\ raised' = [type |-> "Error",
                           strerror |-> IF pc = "flush"
                                        THEN "cannot flush image file"
                                        ELSE "cannot synchronize image file",
                           errno |-> os_errno']
             /\ output' = output
             /\ queried' = << >>
       /\ (pc' \in ScanPcs /\ pc \notin ScanPcs)
          => (pc = "fsync" /\ os_errno' = None)
       /\ (pc' = "fsync" /\ pc # "fsync")
          => (pc = "flush" /\ os_errno' = None)
       /\ (queried' # queried /\ calls >= 1 /\ calls' = calls)
          => pc \in ScanPcs]_vars

\* C14 witness: the fsync failed.
C14_Witness ==
    /\ pc = "failed"
    /\ raised.strerror = "cannot synchronize image file"
    /\ Len(CurDoc) = 1
    /\ queried = << >>

\* C15: when a range first-last is appended to the output, no block beyond
\* last + 1 has been asked about in this pass, and every mapped block below
\* first is in a range already written in this document.
C15_RangesStreamed ==
    [][(Len(output') = Len(output) + 1 /\ output'[Len(output')].kind = "range")
       => LET r == output'[Len(output')] IN
          /\ output' = Append(output, r)
          /\ \A i \in 1..Len(queried) : queried[i] <= r.last + 1
          /\ \A b \in MappedBlocks :
                 b < r.first
                 => \E i \in 1..Len(CurRanges) : b \in Blocks(CurRanges[i])]_vars

\* C15 witness: the second range of a document has just been written and a
\* block has not been asked about yet.
C15_Witness ==
    /\ pc = "groupby_next"
    /\ Len(CurRanges) = 2
    /\ output[Len(output)].kind = "range"
    /\ Len(queried) < bmap_blocks_cnt

\* C16: bmap_mapped_size and bmap_mapped_percent are unset in every state in
\* which the range iteration of the current generation has not completed,
\* a failed generation included; once it completes they are
\* bmap_mapped_cnt * bmap_block_size and 100 * bmap_mapped_cnt /
\* bmap_blocks_cnt.
C16_SummaryOnlyAfterPass ==
    /\ pc \in {"flush", "fsync", "failed"} \cup ScanPcs
       => /\ bmap_mapped_size = None
          /\ bmap_mapped_percent = NoPercent
    /\ pc = "done"
       => /\ bmap_mapped_size = bmap_mapped_cnt * bmap_block_size
          /\ bmap_mapped_percent.num * bmap_blocks_cnt
             = 100 * bmap_mapped_cnt * bmap_mapped_percent.den

\* C17: the block count computed at construction is the ceiling of
\* image size / block size for the size (>= 1) and the block size (>= 1) of
\* the image: bmap_blocks_cnt * bmap_block_size >= bmap_image_size and
\* (bmap_blocks_cnt - 1) * bmap_block_size < bmap_image_size, so
\* bmap_blocks_cnt >= 1; and no step of generate() changes the image size,
\* the block size or the block count.
C17_BlockCountIsCeiling ==
    [][/\ bmap_blocks_cnt' # None
          => /\ bmap_image_size' = img_size /\ bmap_image_size' >= 1
             /\ bmap_block_size' = fs_bsz /\ bmap_block_size' >= 1
             /\ bmap_blocks_cnt' * bmap_block_size' >= bmap_image_size'
             /\ (bmap_blocks_cnt' - 1) * bmap_block_size' < bmap_image_size'
             /\ bmap_blocks_cnt' >= 1
       /\ calls' >= 1 => UNCHANGED meta]_vars

\* C17 witness: a generation completed on an image whose size is not a
\* multiple of the block size.
C17_Witness ==
    /\ pc = "done"
    /\ bmap_image_size = 5
    /\ bmap_block_size = 2
    /\ bmap_blocks_cnt = 3

\* C18: in a scanning pass of generate() the mapping query is made for the
\* block indices 0, 1, 2, ... in this order, each once, never for an index
\* >= bmap_blocks_cnt; a pass that completes has asked about every index
\* of 0 .. bmap_blocks_cnt - 1 exactly once.
C18_QueriesInOrderOnce ==
    calls >= 1
    => /\ Len(queried) <= bmap_blocks_cnt
       /\ \A i \in 1..Len(queried) : queried[i] = i - 1
       /\ pc = "done" => Len(queried) = bmap_blocks_cnt

\* C18 witness: a completed pass over five blocks in which two runs started
\* and ended.
C18_Witness ==
    /\ pc = "done"
    /\ Len(queried) = 5
    /\ Len(CurRanges) = 2

\* The block whose mapping query was the last one made.
LastQueried == queried[Len(queried)]

\* A mapped run that has not ended below block b: blocks k .. b - 1 are all
\* mapped.
OpenAt(k, b) == k < b /\ \A j \in k..(b - 1) : fibmap[j] # 0

\* C19: when the mapping query fails at block b in the scanning pass, every
\* range written before is a whole maximal mapped run below b whose ending
\* unmapped block is below b too (so it was asked about, with success); no
\* block of a run still open at b, one ending at b - 1 included, is in a
\* written range, while every run that ended below b is written; and
\* bmap_mapped_cnt is the sum of the lengths of the written ranges.
C19_FailedQueryKeepsWholeRuns ==
    (pc = "failed" /\ raised.strerror = "the FIBMAP ioctl failed")
    => LET b == LastQueried IN
       /\ \A i \in 1..Len(CurRanges) :
              LET r == CurRanges[i] IN
              /\ r.first <= r.last
              /\ \A k \in Blocks(r) : fibmap[k] # 0
              /\ r.first = 0 \/ fibmap[r.first - 1] = 0
              /\ r.last + 1 < b
              /\ fibmap[r.last + 1] = 0
       /\ \A k \in 0..(b - 1) :
              /\ OpenAt(k, b)
                 => \A i \in 1..Len(CurRanges) : k \notin Blocks(CurRanges[i])
              /\ (fibmap[k] # 0 /\ ~OpenAt(k, b))
                 => \E i \in 1..Len(CurRanges) : k \in Blocks(CurRanges[i])
       /\ bmap_mapped_cnt = SumLen(CurRanges)

\* C19 witness: the query failed at a block whose predecessor is mapped,
\* after a range was written.
C19_Witness ==
    /\ pc = "failed"
    /\ raised.strerror = "the FIBMAP ioctl failed"
    /\ Len(CurRanges) >= 1
    /\ LastQueried >= 1
    /\ fibmap[LastQueried - 1] # 0

\* ceil(to_read / chunk_size) for the chunk size the loop starts with.
MaxReads(to_read) == (to_read + MaxChunk - 1) \div MaxChunk

\* The smaller of two numbers.
Min(a, b) == IF a < b THEN a ELSE b

\* C20: a generation that was started ends, completed unless a call failed;
\* it writes no more ranges than there are blocks; the checksum loop of a
\* range makes at most ceil(to_read / chunk size) reads, every read moving
\* the progress counter by the size asked for (at least 1) even when fewer
\* bytes or none came back; and within a generate() call the read position
\* of the image never decreases.
C20_GenerationTerminates ==
    /\ (pc = "flush") ~> (pc = "done" \/ raised # NoExc)
    /\ [](/\ calls >= 1 => Len(CurRanges) <= bmap_blocks_cnt
          /\ pc = "sha1" => /\ sha.reads <= MaxReads(sha.to_read)
                            /\ sha.read <= sha.to_read)
    /\ [][/\ (pc = "sha1" /\ pc' = "sha1" /\ sha' # sha)
             => /\ sha'.reads = sha.reads + 1
                /\ sha'.to_read = sha.to_read
                /\ sha'.read = sha.read + Min(MaxChunk, sha.to_read - sha.read)
                /\ sha'.read > sha.read
                /\ Len(sha'.hash_obj) - Len(sha.hash_obj)
                   = f_image'.pos - f_image.pos
                /\ Len(sha'.hash_obj) - Len(sha.hash_obj)
                   <= sha'.read - sha.read
          /\ (calls >= 1 /\ calls' = calls)
             => f_image'.pos >= f_image.pos]_vars

\* C20 witness: the checksum loop of a range has ended after the most reads
\* it can make, the last of which, asked for at least one byte at the end of
\* the image, returned nothing.
C20_Witness ==
    /\ pc = "sha1"
    /\ sha.read >= sha.to_read
    /\ sha.reads >= 2
    /\ sha.reads = MaxReads(sha.to_read)
    /\ sha.chunk_size >= 1
    /\ sha.read - Len(sha.hash_obj) >= sha.chunk_size

=============================================================================
